---------------------------- MODULE Spec2Model ----------------------------
(***************************************************************************)
(* A model of src/app.py: the Streamlit script that fetches TSLA daily     *)
(* bars, adds indicator columns, charts the complete rows and prints a     *)
(* Buy/Sell/Hold signal.  The script is re-run from its first line on      *)
(* every user interaction (a "render cycle"); only the two st.cache_data   *)
(* caches survive from one run to the next.                                *)
(*                                                                         *)
(* Numbers.  A cell of a frame is either NaN or a rational <<num, den>>    *)
(* with den > 0.  Closes are whole dollars.  The float thresholds 1.005    *)
(* and 0.995 are the rationals 201/200 and 199/200.                        *)
(*                                                                         *)
(* Library results.  The values pandas_ta computes for RSI, MACD and the   *)
(* MACD signal line are not recomputed (Wilder and exponential smoothing   *)
(* over 50 bars do not fit TLC's integers): they are results of the        *)
(* library call, drawn from small sets when calculate_indicators runs.     *)
(* Which rows carry a value and which carry NaN is modelled from the       *)
(* window lengths the script passes or names in its column labels.         *)
(***************************************************************************)
EXTENDS Integers, Sequences, FiniteSets, TLC

(***************************************************************************)
(* Program constants                                                       *)
(***************************************************************************)
SMA_20_LEN == 20
SMA_50_LEN == 50
RSI_LEN == 14
MACD_SLOW == 26
MACD_SIGNAL == 9
BB_LEN == 20
RSI_OVERSOLD == 30
RSI_OVERBOUGHT == 70

\* horizon = st.sidebar.selectbox("Prediction Horizon (days)", [1, 5])
Horizons == {1, 5}

ChartTypes == {"Candlestick", "Moving Averages", "RSI", "MACD",
               "Bollinger Bands", "Volume"}

(***************************************************************************)
(* Bounds of the model                                                     *)
(***************************************************************************)
\* render cycles explored by Spec
MaxCycles == 2
\* series lengths SMA_50_LEN .. SMA_50_LEN + MaxTail are explored by SpecFn
MaxTail == 2
\* the level (in dollars) around which the modelled closes move
BasePrice == 8

(***************************************************************************)
(* Cells and frames                                                        *)
(***************************************************************************)
NaN == <<>>

Num(v) == <<v, 1>>

\* a > b on two defined cells
Gt(a, b) == a[1] * b[2] > b[1] * a[2]

RECURSIVE SumFirst(_, _)
\* s[1] + ... + s[i]
SumFirst(s, i) == IF i = 0 THEN 0 ELSE s[i] + SumFirst(s, i - 1)

\* the sum of a sequence of numbers
Sum(s) == SumFirst(s, Len(s))

\* the columns of the frame yf.download returns that the script reads
\* (Open, High, Low and Volume are only handed to the chart)
RawColumns == {"Date", "Close"}

RECURSIVE Running(_, _)
\* the running totals of the first i numbers of s: <<s[1], s[1] + s[2], ...>>
Running(s, i) ==
    IF i = 0 THEN <<>>
    ELSE LET head == Running(s, i - 1)
         IN Append(head, (IF i = 1 THEN 0 ELSE head[i - 1]) + s[i])

\* the total over rows (i - k + 1)..i, from running totals
Window(totals, i, k) == totals[i] - (IF i = k THEN 0 ELSE totals[i - k])

\* per row: 1 for a numeric close, and the close itself (0 for NaN)
IsNum(df) == [i \in 1..Len(df) |-> IF df[i].Close # NaN THEN 1 ELSE 0]

CloseOrZero(df) == [i \in 1..Len(df) |-> IF df[i].Close # NaN THEN df[i].Close[1] ELSE 0]

\* DataFrame.dropna(subset=...): the rows with a number in every column of
\* subset, in their order
DropNa(df, subset) ==
    SelectSeq(df, LAMBDA r : \A c \in subset : r[c] # NaN)


(***************************************************************************)
(* calculate_indicators                                                    *)
(***************************************************************************)
\* ta.sma(df["Close"], length=k) at row i: the mean of the k closes ending
\* there, NaN while the window is not full or holds a NaN.  cnt and sum are
\* the running count and the running sum of the numeric closes.
Sma(cnt, sum, i, k) ==
    IF i >= k /\ Window(cnt, i, k) = k
    THEN <<Window(sum, i, k), k>>
    ELSE NaN

\* A smoothed column (RSI, MACD, MACD signal) has a value from the row that
\* holds the need-th numeric close on; a row whose own close is NaN repeats
\* the value of the row before it.  The value itself is the library's:
\* lib.last for the latest row, lib.prev for every earlier row.
Smoothed(df, cnt, i, need, col, lib) ==
    IF cnt[i] < need THEN NaN
    ELSE IF i = Len(df) /\ df[i].Close # NaN THEN Num(lib.last[col])
    ELSE Num(lib.prev[col])

\* lines 45-47: the three columns assigned with df[...] = ...
WithSmaRsi(df, lib) ==
    LET cnt == Running(IsNum(df), Len(df))
        sum == Running(CloseOrZero(df), Len(df))
    IN [i \in 1..Len(df) |->
        [Date |-> df[i].Date, Close |-> df[i].Close,
         SMA_20 |-> Sma(cnt, sum, i, SMA_20_LEN),
         SMA_50 |-> Sma(cnt, sum, i, SMA_50_LEN),
         RSI |-> Smoothed(df, cnt, i, RSI_LEN + 1, "rsi", lib)]]

\* lines 49-53: pd.concat([df, macd_df], axis=1) and pd.concat([df, bb_df],
\* axis=1) join on the index, so every row keeps its place and gains the
\* MACD and band columns.  Only whether BBU is a number is modelled (a full
\* 20-close window); its cell carries the middle band.
WithMacdBands(df, lib) ==
    LET cnt == Running(IsNum(df), Len(df))
        sum == Running(CloseOrZero(df), Len(df))
    IN [i \in 1..Len(df) |->
        [Date |-> df[i].Date, Close |-> df[i].Close,
         SMA_20 |-> Sma(cnt, sum, i, SMA_20_LEN),
         SMA_50 |-> Sma(cnt, sum, i, SMA_50_LEN),
         RSI |-> Smoothed(df, cnt, i, RSI_LEN + 1, "rsi", lib),
         MACD |-> Smoothed(df, cnt, i, MACD_SLOW, "macd", lib),
         MACDs |-> Smoothed(df, cnt, i, MACD_SLOW + MACD_SIGNAL - 1, "macds", lib),
         BBU |-> Sma(cnt, sum, i, BB_LEN)]]

\* lines 45-53 when ta.macd gave no frame: the band columns are joined, the
\* MACD columns are absent
WithBandsOnly(df, lib) ==
    LET full == WithMacdBands(df, lib)
    IN [i \in 1..Len(df) |->
        [c \in DOMAIN full[i] \ {"MACD", "MACDs"} |-> full[i][c]]]

\* The frame line 55 returns.  pandas_ta hands back None instead of a frame
\* for a series shorter than the indicator's longest window, and pd.concat
\* drops a None: with lib.frames = FALSE a series shorter than the slow MACD
\* window comes back without the MACD columns, and one shorter than the band
\* window without the band columns too.
Enriched(df, lib) ==
    IF lib.frames \/ Len(df) >= MACD_SLOW THEN WithMacdBands(df, lib)
    ELSE IF Len(df) >= BB_LEN THEN WithBandsOnly(df, lib)
    ELSE WithSmaRsi(df, lib)

\* the caller's frame after the call, mutated: the columns of lines 45-47
\* assigned to the argument itself
ArgAfterCallNoCopy(df, lib) == WithSmaRsi(df, lib)

\* the caller's frame after the call: line 44 rebinds df to a copy, so the
\* assignments of lines 45-47 never reach the argument
ArgAfterCall(df, lib) == df

\* calculate_indicators(df): what it returns and what it leaves in its
\* argument
calculate_indicators(df, lib) ==
    [ret |-> Enriched(df, lib), arg |-> ArgAfterCall(df, lib)]

(***************************************************************************)
(* plot_df                                                                 *)
(***************************************************************************)
\* the subset without the 50-bar mean
PlotSubsetNoSma50 == {"SMA_20", "RSI", "MACD", "BBU"}

\* line 60: subset=["SMA_20", "SMA_50", "RSI", "MACD_12_26_9", "BBU_20_2.0"]
PlotSubset == {"SMA_20", "SMA_50", "RSI", "MACD", "BBU"}

\* the columns of a frame (those of its first row; none for an empty frame)
Columns(df) == IF df = <<>> THEN {} ELSE DOMAIN df[1]

(***************************************************************************)
(* predict_signal                                                          *)
(***************************************************************************)
\* line 122: subset=["Close", "RSI", "MACD_12_26_9", "MACDs_12_26_9"]
PredictSubset == {"Close", "RSI", "MACD", "MACDs"}

\* df[...].iloc[0]
FirstRow(df) == df[1]

\* df[...].iloc[-1]
LastRow(df) == df[Len(df)]

\* LinearRegression().fit(df[["DayNum"]], df["Close"]) with DayNum = 0..m-1
\* (lines 127-130) is the least-squares line through (i - 1, Close of row i).
\* With S = sum of (2 (i - 1) - (m - 1)) * y_i its slope is
\* 6 S / (m (m^2 - 1)) and it passes through the mean point, so its value at
\* day t is  FitNum(df, t) / FitDen(df).  One row: the line is flat.
FitS(df) ==
    LET m == Len(df)
    IN Sum([i \in 1..m |-> (2 * (i - 1) - (m - 1)) * df[i].Close[1]])

FitDen(df) == LET m == Len(df) IN IF m = 1 THEN 1 ELSE m * (m * m - 1)

FitNum(df, t) ==
    LET m == Len(df)
    IN IF m = 1 THEN df[1].Close[1]
       ELSE (m * m - 1) * Sum(CloseOrZero(df)) + 3 * FitS(df) * (2 * t - m + 1)

\* line 131: np.arange(len(df), len(df) + horizon_days)
FutureDays(m, horizon_days) == [k \in 1..horizon_days |-> m + k - 1]

\* line 132: model.predict(future_days), each price as a cell
PredPrices(df, horizon_days) ==
    LET days == FutureDays(Len(df), horizon_days) IN
    [k \in 1..Len(days) |-> <<FitNum(df, days[k]), FitDen(df)>>]

\* np.sum in place of np.mean
SumPred(prices) ==
    <<Sum([k \in 1..Len(prices) |-> prices[k][1]]), prices[1][2]>>

\* line 133: np.mean(pred_prices); the prices share one denominator
AvgPred(prices) ==
    <<Sum([k \in 1..Len(prices) |-> prices[k][1]]), Len(prices) * prices[1][2]>>

\* the trend vote of the specification: close against the 20-bar mean
TrendBySma(avg_pred, row) ==
    IF row.SMA_20 # NaN /\ Gt(row.Close, row.SMA_20) THEN "Buy" ELSE "Sell"

\* line 136, with current_price = the close of row (line 134):
\* avg_pred > 1.005 * current_price, avg_pred < 0.995 * current_price
Trend(avg_pred, row) ==
    LET current_price == row.Close IN
    IF Gt(<<200 * avg_pred[1], avg_pred[2]>>, <<201 * current_price[1], current_price[2]>>)
    THEN "Buy"
    ELSE IF Gt(<<199 * current_price[1], current_price[2]>>, <<200 * avg_pred[1], avg_pred[2]>>)
    THEN "Sell"
    ELSE "Hold"

\* line 138
RsiSig(rsi) ==
    IF Gt(Num(RSI_OVERSOLD), rsi) THEN "Buy"
    ELSE IF Gt(rsi, Num(RSI_OVERBOUGHT)) THEN "Sell"
    ELSE "Hold"

\* the MACD vote of the specification: never abstains
MacdSigNoHold(macd, macds) == IF Gt(macd, macds) THEN "Buy" ELSE "Sell"

\* line 139
MacdSig(macd, macds) ==
    IF Gt(macd, macds) THEN "Buy"
    ELSE IF Gt(macds, macd) THEN "Sell"
    ELSE "Hold"

\* votes.count(v)
Count(votes, v) == Cardinality({i \in DOMAIN votes : votes[i] = v})

\* the tally of the specification: more Buy than Sell votes, or the reverse
OverallByPlurality(votes) ==
    IF Count(votes, "Buy") > Count(votes, "Sell") THEN "Buy"
    ELSE IF Count(votes, "Sell") > Count(votes, "Buy") THEN "Sell"
    ELSE "Hold"

\* lines 141-147 (the script prefixes each word with a coloured dot)
Overall(votes) ==
    IF Count(votes, "Buy") >= 2 THEN "Buy"
    ELSE IF Count(votes, "Sell") >= 2 THEN "Sell"
    ELSE "Hold"

\* ndarray.round(2): a price in whole cents, ties to the even cent
Round2(price) ==
    LET n == 100 * price[1]
        d == price[2]
        q == n \div d
        r == n - q * d
    IN IF 2 * r > d \/ (2 * r = d /\ q % 2 = 1) THEN q + 1 ELSE q

\* predict_signal(df_full, horizon_days): the pair it returns, and the three
\* votes it tallied
predict_signal(df_full, horizon_days) ==
    LET df == DropNa(df_full, PredictSubset) IN
    IF df = <<>>
    THEN [signal |-> "Insufficient Data", pred_prices |-> <<>>, votes |-> <<>>]
    ELSE LET prices == PredPrices(df, horizon_days)
             row == LastRow(df)
             votes == <<Trend(AvgPred(prices), row),
                        RsiSig(row.RSI),
                        MacdSig(row.MACD, row.MACDs)>>
         IN [signal |-> Overall(votes),
             pred_prices |-> [k \in 1..Len(prices) |-> Round2(prices[k])],
             votes |-> votes]

(***************************************************************************)
(* Inputs: the series the provider returns and the values the indicator    *)
(* library computes for them                                               *)
(***************************************************************************)
Shapes == {"flat", "up", "down", "spike", "drop", "late"}

\* the close of row i of an n-row series, in whole dollars
CloseAt(shape, i, n) ==
    CASE shape = "flat"  -> BasePrice
      [] shape = "up"    -> BasePrice - 4 + (i \div 8)
      [] shape = "down"  -> BasePrice + 4 - (i \div 8)
      [] shape = "spike" -> IF i = n THEN BasePrice + 2 ELSE BasePrice
      [] shape = "drop"  -> IF i = n THEN BasePrice - 2 ELSE BasePrice
      [] shape = "late"  -> IF i > n - 3 THEN BasePrice + 1 ELSE BasePrice

\* The frame yf.download returns for series s: n rows in date order; with
\* s.lastNaN the latest bar has no close yet.
RawFrame(s) ==
    [i \in 1..s.n |->
        [Date |-> i,
         Close |-> IF s.lastNaN /\ i = s.n THEN NaN
                   ELSE Num(CloseAt(s.shape, i, s.n))]]

LibValues(rsis, pairs) == {[rsi |-> r, macd |-> p[1], macds |-> p[2]] : r \in rsis, p \in pairs}

\* series and library results explored by SpecFn
FnBarCounts ==
    {MACD_SLOW, MACD_SLOW + MACD_SIGNAL - 2, MACD_SLOW + MACD_SIGNAL - 1,
     SMA_50_LEN - 1, 60} \cup (SMA_50_LEN..(SMA_50_LEN + MaxTail))

FnSeries == [n : FnBarCounts, shape : Shapes, lastNaN : BOOLEAN]

FnLibs ==
    [last : LibValues({25, 30, 50, 70, 75}, {<<0, 1>>, <<1, 1>>, <<1, 0>>}),
     prev : LibValues({25}, {<<1, 0>>}) \cup LibValues({75}, {<<0, 1>>}),
     frames : {TRUE}]

\* series and library results explored by Spec
CycleSeries ==
    [n : {SMA_20_LEN, SMA_50_LEN - 1, SMA_50_LEN + 1}, shape : {"up"}, lastNaN : {FALSE}]
    \cup [n : {SMA_50_LEN + 1}, shape : {"up"}, lastNaN : {TRUE}]

CycleLibs ==
    [last : LibValues({25}, {<<1, 0>>}),
     prev : LibValues({75}, {<<0, 1>>}),
     frames : BOOLEAN]

Dates == 1..2

\* the arguments fetch_data can be called with (line 18 stops the script
\* when start_date > end_date)
Keys == {k \in Dates \X Dates : k[1] <= k[2]}

(***************************************************************************)
(* State                                                                   *)
(***************************************************************************)
VARIABLES
    pc,             \* where the run of the script stands
    cycle,          \* number of the render cycle
    start_date, end_date, horizon,      \* the sidebar widgets (0: not read yet)
    fetchCache,     \* st.cache_data of fetch_data: key -> <<>> or <<entry>>
    indCache,       \* st.cache_data of calculate_indicators: {[arg, value]}
    data,           \* what fetch_data returned
    data_with_ind,  \* what calculate_indicators returned
    plot_df,        \* line 60
    fig,            \* the chart handed to st.plotly_chart ("" : none)
    signal, pred_prices, votes,         \* line 151, and the votes behind it
    messages,       \* st.error / exception boxes shown in this cycle
    upstreamCalls,  \* yf.download calls in this cycle
    calcCalls,      \* calls of calculate_indicators in this cycle
    prev            \* the cycle before: its key and whether its fetch failed

vars == <<pc, cycle, start_date, end_date, horizon, fetchCache, indCache, data,
          data_with_ind, plot_df, fig, signal, pred_prices, votes, messages,
          upstreamCalls, calcCalls, prev>>

\* fetch_data's return value: None, or a frame
None == [ok |-> FALSE, df |-> <<>>]

Frame(df) == [ok |-> TRUE, df |-> df]

MsgDates == "Start date must be before end date."
MsgEmpty == "No data returned. Try a different date range."
MsgFetch == "Error fetching data"
MsgShort == "Not enough data to calculate indicators."
MsgKeyError == "KeyError"

Key == <<start_date, end_date>>

\* the state a run of the script starts from: nothing but the caches is kept
FreshRun ==
    /\ pc' = "inputs"
    /\ start_date' = 0 /\ end_date' = 0 /\ horizon' = 0
    /\ data' = None /\ data_with_ind' = <<>> /\ plot_df' = <<>>
    /\ fig' = "" /\ signal' = "" /\ pred_prices' = <<>> /\ votes' = <<>>
    /\ messages' = <<>> /\ upstreamCalls' = 0 /\ calcCalls' = 0

Init ==
    /\ pc = "inputs" /\ cycle = 1
    /\ start_date = 0 /\ end_date = 0 /\ horizon = 0
    /\ fetchCache = [k \in Keys |-> <<>>]
    /\ indCache = {}
    /\ data = None /\ data_with_ind = <<>> /\ plot_df = <<>>
    /\ fig = "" /\ signal = "" /\ pred_prices = <<>> /\ votes = <<>>
    /\ messages = <<>> /\ upstreamCalls = 0 /\ calcCalls = 0
    /\ prev = [key |-> <<0, 0>>, failed |-> FALSE]

(***************************************************************************)
(* One run of the script                                                   *)
(***************************************************************************)
\* lines 15-22: the sidebar widgets, and the stop on an inverted date range
\* (the horizon selectbox on line 22 is not reached then)
SidebarInputs ==
    /\ pc = "inputs"
    /\ \E s \in Dates, e \in Dates, h \in Horizons :
         /\ start_date' = s /\ end_date' = e
         /\ IF s > e
            THEN /\ messages' = Append(messages, MsgDates)
                 /\ horizon' = horizon
                 /\ pc' = "stopped"
            ELSE /\ messages' = messages
                 /\ horizon' = h
                 /\ pc' = "fetch"
    /\ UNCHANGED <<cycle, fetchCache, indCache, data, data_with_ind, plot_df,
                   fig, signal, pred_prices, votes, upstreamCalls, calcCalls,
                   prev>>

\* an entry that keeps the value alone: nothing is replayed on a hit
CacheEntryValueOnly(value, shown) == [value |-> value, shown |-> <<>>]

\* what st.cache_data keeps for a call that returned: the value and the
\* elements the body showed (replayed on a hit); the body of fetch_data
\* catches every exception, so every call returns and is kept
CacheEntry(value, shown) == [value |-> value, shown |-> shown]

\* lines 37-39: data = fetch_data(...) returned value; None stops the script
FetchReturns(value, shown) ==
    /\ data' = value
    /\ messages' = messages \o shown
    /\ pc' = IF value = None THEN "stopped" ELSE "calc"

\* line 37 on a cache miss: the body runs (lines 27-35), calls yf.download
\* once, and its return value is stored under (start, end)
FetchMiss(series) ==
    /\ pc = "fetch"
    /\ fetchCache[Key] = <<>>
    /\ upstreamCalls' = upstreamCalls + 1
    /\ \E out \in {[value |-> None, shown |-> <<MsgFetch>>],
                   [value |-> None, shown |-> <<MsgEmpty>>]}
                  \cup {[value |-> Frame(RawFrame(s)), shown |-> <<>>] : s \in series} :
         /\ FetchReturns(out.value, out.shown)
         /\ fetchCache' = [fetchCache EXCEPT ![Key] = <<CacheEntry(out.value, out.shown)>>]
    /\ UNCHANGED <<cycle, start_date, end_date, horizon, indCache, data_with_ind,
                   plot_df, fig, signal, pred_prices, votes, calcCalls, prev>>

\* line 37 on a cache hit: the stored value and its elements, no download
FetchHit ==
    /\ pc = "fetch"
    /\ fetchCache[Key] # <<>>
    /\ FetchReturns(fetchCache[Key][1].value, fetchCache[Key][1].shown)
    /\ UNCHANGED <<cycle, start_date, end_date, horizon, fetchCache, indCache,
                   data_with_ind, plot_df, fig, signal, pred_prices, votes,
                   upstreamCalls, calcCalls, prev>>

\* line 57 on a cache miss: the body runs on the frame and its result is kept
CalcMiss(libs) ==
    /\ pc = "calc"
    /\ ~\E c \in indCache : c.arg = data.df
    /\ \E lib \in libs :
         LET r == calculate_indicators(data.df, lib) IN
         /\ data_with_ind' = r.ret
         /\ data' = Frame(r.arg)
         /\ indCache' = indCache \cup {[arg |-> data.df, value |-> r.ret]}
    /\ calcCalls' = calcCalls + 1
    /\ pc' = "dropna"
    /\ UNCHANGED <<cycle, start_date, end_date, horizon, fetchCache, plot_df,
                   fig, signal, pred_prices, votes, messages, upstreamCalls, prev>>

\* line 57 on a cache hit
CalcHit ==
    /\ pc = "calc"
    /\ \E c \in indCache :
         /\ c.arg = data.df
         /\ data_with_ind' = c.value
    /\ calcCalls' = calcCalls + 1
    /\ pc' = "dropna"
    /\ UNCHANGED <<cycle, start_date, end_date, horizon, fetchCache, indCache,
                   data, plot_df, fig, signal, pred_prices, votes, messages,
                   upstreamCalls, prev>>

\* lines 60-66 without the stop of lines 62-64
PlotDfNoStop ==
    /\ pc = "dropna"
    /\ PlotSubset \subseteq Columns(data_with_ind)
    /\ plot_df' = DropNa(data_with_ind, PlotSubset)
    /\ pc' = "chart"
    /\ UNCHANGED <<cycle, start_date, end_date, horizon, fetchCache, indCache,
                   data, data_with_ind, fig, signal, pred_prices, votes,
                   messages, upstreamCalls, calcCalls, prev>>

\* lines 60-66: the complete rows; none of them stops the script
PlotDf ==
    /\ pc = "dropna"
    /\ PlotSubset \subseteq Columns(data_with_ind)
    /\ plot_df' = DropNa(data_with_ind, PlotSubset)
    /\ IF plot_df' = <<>>
       THEN messages' = Append(messages, MsgShort) /\ pc' = "stopped"
       ELSE messages' = messages /\ pc' = "chart"
    /\ UNCHANGED <<cycle, start_date, end_date, horizon, fetchCache, indCache,
                   data, data_with_ind, fig, signal, pred_prices, votes,
                   upstreamCalls, calcCalls, prev>>

\* line 60 on a frame without one of the columns: dropna raises KeyError,
\* Streamlit shows the exception and the run ends
PlotDfKeyError ==
    /\ pc = "dropna"
    /\ ~(PlotSubset \subseteq Columns(data_with_ind))
    /\ messages' = Append(messages, MsgKeyError)
    /\ pc' = "stopped"
    /\ UNCHANGED <<cycle, start_date, end_date, horizon, fetchCache, indCache,
                   data, data_with_ind, plot_df, fig, signal, pred_prices,
                   votes, upstreamCalls, calcCalls, prev>>

\* lines 69-116: the chart of the selected type
Chart ==
    /\ pc = "chart"
    /\ \E chart_type \in ChartTypes : fig' = chart_type
    /\ pc' = "predict"
    /\ UNCHANGED <<cycle, start_date, end_date, horizon, fetchCache, indCache,
                   data, data_with_ind, plot_df, signal, pred_prices, votes,
                   messages, upstreamCalls, calcCalls, prev>>

\* lines 151-156: the signal section
Predict ==
    /\ pc = "predict"
    /\ LET r == predict_signal(data_with_ind, horizon) IN
         /\ signal' = r.signal
         /\ pred_prices' = r.pred_prices
         /\ votes' = r.votes
    /\ pc' = "done"
    /\ UNCHANGED <<cycle, start_date, end_date, horizon, fetchCache, indCache,
                   data, data_with_ind, plot_df, fig, messages, upstreamCalls,
                   calcCalls, prev>>

\* the fetch of this cycle ended in None
FetchFailed == pc = "stopped" /\ 0 < start_date /\ start_date <= end_date /\ data = None

\* a user interaction after the run ended: the script runs again from line 1
Rerun ==
    /\ pc \in {"done", "stopped"}
    /\ cycle < MaxCycles
    /\ cycle' = cycle + 1
    /\ prev' = [key |-> Key, failed |-> FetchFailed]
    /\ FreshRun
    /\ UNCHANGED <<fetchCache, indCache>>

Next ==
    \/ SidebarInputs
    \/ FetchMiss(CycleSeries)
    \/ FetchHit
    \/ CalcMiss(CycleLibs)
    \/ CalcHit
    \/ PlotDf
    \/ PlotDfKeyError
    \/ Chart
    \/ Predict
    \/ Rerun

Spec == Init /\ [][Next]_vars

(***************************************************************************)
(* The functions applied to every series of FnSeries: calculate_indicators,*)
(* the dropna of line 60 and predict_signal, one after the other, without  *)
(* the stops of the script in between                                      *)
(***************************************************************************)
InitFn ==
    /\ pc = "calc" /\ cycle = 1
    /\ start_date = 1 /\ end_date = 1
    /\ horizon \in Horizons
    /\ fetchCache = [k \in Keys |-> <<>>]
    /\ indCache = {}
    /\ \E s \in FnSeries : data = Frame(RawFrame(s))
    /\ data_with_ind = <<>> /\ plot_df = <<>>
    /\ fig = "" /\ signal = "" /\ pred_prices = <<>> /\ votes = <<>>
    /\ messages = <<>> /\ upstreamCalls = 1 /\ calcCalls = 0
    /\ prev = [key |-> <<0, 0>>, failed |-> FALSE]

\* line 60 alone
DropNaCall ==
    /\ pc = "dropna"
    /\ plot_df' = DropNa(data_with_ind, PlotSubset)
    /\ pc' = "predict"
    /\ UNCHANGED <<cycle, start_date, end_date, horizon, fetchCache, indCache,
                   data, data_with_ind, fig, signal, pred_prices, votes,
                   messages, upstreamCalls, calcCalls, prev>>

NextFn ==
    \/ CalcMiss(FnLibs)
    \/ DropNaCall
    \/ Predict

SpecFn == InitFn /\ [][NextFn]_vars

(***************************************************************************)
(* Properties                                                              *)
(***************************************************************************)
Signals == {"Buy", "Sell", "Hold"}

\* predict_signal has returned a signal it computed from votes
Voted == pc = "done" /\ votes # <<>>

\* the rows of the enriched frame predict_signal keeps
CompleteRows == DropNa(data_with_ind, PredictSubset)

\* the latest row of the enriched frame with a number in each of Close, RSI,
\* MACD and MACDs
LatestComplete ==
    LET ok == {i \in 1..Len(data_with_ind) :
                 \A c \in PredictSubset : data_with_ind[i][c] # NaN}
    IN data_with_ind[CHOOSE i \in ok : \A j \in ok : j <= i]

LatestRow == data_with_ind[Len(data_with_ind)]

AllClosesDefined == \A i \in 1..Len(data.df) : data.df[i].Close # NaN

OtherHorizon == IF horizon = 1 THEN 5 ELSE 1

Rank(sig) == CASE sig = "Sell" -> 0 [] sig = "Hold" -> 1 [] sig = "Buy" -> 2

\* C1 as stated: the overall signal is Buy when Buy votes outnumber Sell
\* votes, Sell when Sell votes outnumber Buy votes, Hold otherwise.
C1_PluralityTally ==
    Voted =>
        LET buy == Cardinality({i \in 1..3 : votes[i] = "Buy"})
            sell == Cardinality({i \in 1..3 : votes[i] = "Sell"})
        IN signal = IF buy > sell THEN "Buy" ELSE IF sell > buy THEN "Sell" ELSE "Hold"

\* C1 amended: three votes are tallied; the overall signal is Buy exactly when
\* two of them are Buy, Sell exactly when two of them are Sell, and Hold
\* otherwise, so one Buy vote beside two Hold votes gives Hold.
C1_MajorityTally ==
    Voted =>
        /\ Len(votes) = 3
        /\ \A i \in 1..3 : votes[i] \in Signals
        /\ signal \in Signals
        /\ signal = "Buy" <=> \E i, j \in 1..3 : i < j /\ votes[i] = "Buy" /\ votes[j] = "Buy"
        /\ signal = "Sell" <=> \E i, j \in 1..3 : i < j /\ votes[i] = "Sell" /\ votes[j] = "Sell"

\* C1 witness: one Buy vote beside two Hold votes, tallied as Hold
C1_OneBuyTwoHold ==
    /\ Voted
    /\ Cardinality({i \in 1..3 : votes[i] = "Buy"}) = 1
    /\ Cardinality({i \in 1..3 : votes[i] = "Hold"}) = 2
    /\ signal = "Hold"

\* C2 as stated: predict_signal returns the same overall signal for horizon 1
\* and horizon 5 on every enriched series.
C2_HorizonDisplayOnly ==
    pc = "done" => signal = predict_signal(data_with_ind, OtherHorizon).signal

\* C2 amended: the horizon sets how many prices are predicted and the days
\* whose mean prediction makes the trend vote.  Both horizons give the same
\* RSI and MACD votes; they give the same overall signal when the fitted line
\* is flat; on a rising line the other, longer horizon is never more bearish,
\* on a falling line never more bullish.
C2_HorizonMovesTrend ==
    Voted =>
        LET other == predict_signal(data_with_ind, OtherHorizon)
            slope == FitS(CompleteRows)
            far == IF horizon = 5 THEN signal ELSE other.signal
            near == IF horizon = 5 THEN other.signal ELSE signal
        IN /\ Len(pred_prices) = horizon
           /\ Len(other.pred_prices) = OtherHorizon
           /\ other.votes[2] = votes[2]
           /\ other.votes[3] = votes[3]
           /\ slope = 0 => far = near
           /\ slope > 0 => Rank(far) >= Rank(near)
           /\ slope < 0 => Rank(far) <= Rank(near)

\* C2 witness: the two horizons disagree on the overall signal
C2_HorizonsDisagree ==
    /\ Voted
    /\ signal # predict_signal(data_with_ind, OtherHorizon).signal

\* C3 as stated: the trend vote is Buy if close > sma20 on the row the
\* classifier reads and Sell otherwise.
C3_TrendBySma20 ==
    Voted =>
        votes[1] = IF LatestComplete.SMA_20 # NaN
                      /\ Gt(LatestComplete.Close, LatestComplete.SMA_20)
                   THEN "Buy" ELSE "Sell"

\* C3 amended: the trend vote comes from the least-squares line through the
\* closes of all complete rows (day 0 .. m-1): Buy if the mean of the line
\* over days m .. m+horizon-1 is above 1.005 times the latest complete close,
\* Sell if it is below 0.995 times that close, Hold otherwise; sma20 is not
\* read.
C3_TrendByRegression ==
    Voted =>
        LET df == CompleteRows
            m == Len(df)
            den == FitDen(df)
            res == [i \in 1..m |-> den * df[i].Close[1] - FitNum(df, i - 1)]
            xres == [i \in 1..m |-> (i - 1) * res[i]]
            line == [k \in 1..horizon |-> FitNum(df, m + k - 1)]
            mean200 == 200 * Sum(line)
            close == LatestComplete.Close[1] * horizon * den
        IN /\ den > 0
           /\ Sum(res) = 0
           /\ Sum(xres) = 0
           /\ votes[1] = "Buy" <=> mean200 > 201 * close
           /\ votes[1] = "Sell" <=> mean200 < 199 * close
           /\ votes[1] = "Hold" <=> (199 * close <= mean200 /\ mean200 <= 201 * close)

\* C3 witness: the latest complete close is above its 20-bar mean and the
\* trend vote is not Buy
C3_AboveSmaNotBuy ==
    /\ Voted
    /\ LatestComplete.SMA_20 # NaN
    /\ Gt(LatestComplete.Close, LatestComplete.SMA_20)
    /\ votes[1] # "Buy"

\* C4 as stated: the MACD vote is Buy if macd > macd_signal and Sell in every
\* other case, equality included.
C4_MacdNeverAbstains ==
    Voted =>
        votes[3] = IF Gt(LatestComplete.MACD, LatestComplete.MACDs) THEN "Buy" ELSE "Sell"

\* C4 amended: the MACD vote is Buy if macd > macd_signal, Sell if
\* macd < macd_signal, and Hold (an abstention) if the two are equal.
C4_MacdThreeWay ==
    Voted =>
        LET macd == LatestComplete.MACD[1]
            macds == LatestComplete.MACDs[1]
        IN /\ votes[3] = "Buy" <=> macd > macds
           /\ votes[3] = "Sell" <=> macd < macds
           /\ votes[3] = "Hold" <=> macd = macds

\* C4 witness: macd equals macd_signal and the MACD vote is Hold
C4_EqualMacdHolds ==
    /\ Voted
    /\ LatestComplete.MACD = LatestComplete.MACDs
    /\ votes[3] = "Hold"

\* C5 as stated: a latest row with rsi14, macd, macd_signal, close or sma20
\* undefined makes predict_signal return "Insufficient Data" and no prices.
C5_LatestRowUndefinedFails ==
    (pc = "done" /\ \E c \in {"RSI", "MACD", "MACDs", "Close", "SMA_20"} : LatestRow[c] = NaN)
        => (signal = "Insufficient Data" /\ pred_prices = <<>>)

\* C5 amended: predict_signal returns "Insufficient Data" and no prices
\* exactly when no row has Close, RSI, MACD and the MACD signal all defined;
\* otherwise it returns Buy, Sell or Hold with the RSI and MACD votes taken
\* from the latest row on which those four are defined, which may be earlier
\* than the latest row; sma20 is not required.
C5_LatestCompleteRowUsed ==
    pc = "done" =>
        IF CompleteRows = <<>>
        THEN signal = "Insufficient Data" /\ pred_prices = <<>> /\ votes = <<>>
        ELSE /\ signal \in Signals
             /\ pred_prices # <<>>
             /\ \A c \in PredictSubset : LatestComplete[c] # NaN
             /\ votes[2] = RsiSig(LatestComplete.RSI)
             /\ votes[3] = MacdSig(LatestComplete.MACD, LatestComplete.MACDs)

\* C5 witness: the latest row has no close and a signal is computed from an
\* earlier row
C5_SignalFromEarlierRow ==
    /\ pc = "done"
    /\ LatestRow.Close = NaN
    /\ CompleteRows # <<>>
    /\ LatestComplete # LatestRow
    /\ signal \in Signals

FetchGaveNone ==
    pc \notin {"inputs", "fetch"} /\ 0 < start_date /\ start_date <= end_date /\ data = None

\* the script is past line 60 and no row is complete
NoCompleteRow ==
    /\ pc \in {"stopped", "chart", "predict", "done"}
    /\ data # None
    /\ (plot_df = <<>> \/ Len(data.df) < 50)

\* C7: in every render cycle a failed or empty fetch, or a series without a
\* complete row (fewer than 50 bars), ends the cycle with a message shown:
\* yf.download was called at most once, no chart was drawn, no signal was
\* emitted, and after a failed fetch calculate_indicators was never called.
C7_FailureHaltsCycle ==
    /\ upstreamCalls <= 1
    /\ (FetchGaveNone \/ NoCompleteRow) =>
          /\ pc = "stopped"
          /\ messages # <<>>
          /\ fig = ""
          /\ signal = "" /\ pred_prices = <<>>
    /\ FetchGaveNone => (calcCalls = 0 /\ data_with_ind = <<>>)
    /\ (fig # "" \/ signal # "") => (data # None /\ plot_df # <<>> /\ Len(data.df) >= 50)

\* C7 witness: a cycle served a failed fetch from the cache and halted with
\* its message
C7_CachedFailureHalts ==
    /\ FetchGaveNone
    /\ upstreamCalls = 0
    /\ pc = "stopped"
    /\ messages # <<>>

\* C8: calculate_indicators returns a frame with as many rows as its input,
\* with the same timestamps in the same order, and leaves its input (rows and
\* columns) as it was.
C8_CalcIsPure ==
    /\ [](pc \in {"dropna", "predict", "done"} =>
            /\ Len(data_with_ind) = Len(data.df)
            /\ \A i \in 1..Len(data.df) :
                 /\ data_with_ind[i].Date = data.df[i].Date
                 /\ data_with_ind[i].Close = data.df[i].Close
            /\ Columns(data.df) = RawColumns)
    /\ [][pc = "calc" => data' = data]_vars

\* C8 witness: calculate_indicators has returned an enriched 60-row frame
C8_SixtyRowsEnriched ==
    /\ pc = "dropna"
    /\ calcCalls = 1
    /\ Len(data_with_ind) = 60
    /\ "SMA_50" \in Columns(data_with_ind)
    /\ data_with_ind[60].SMA_50 # NaN

\* C9 as stated: in a cycle re-triggered with the dates of a cycle whose fetch
\* failed, fetch_data calls the provider again.
C9_RefetchAfterFailure ==
    (cycle > 1 /\ prev.failed /\ prev.key = Key /\ pc \notin {"inputs", "fetch"})
        => upstreamCalls = 1

\* C10: in every cycle that reaches the signal section the signal is one of
\* Buy, Sell, Hold (never "Insufficient Data", never two majorities at once)
\* and there are exactly horizon predicted prices; predict_signal returns an
\* empty price list only together with "Insufficient Data".
C10_SignalSectionDecides ==
    /\ pc = "done" =>
          /\ signal \in Signals
          /\ horizon \in Horizons
          /\ Len(pred_prices) = horizon
          /\ ~(Count(votes, "Buy") >= 2 /\ Count(votes, "Sell") >= 2)
    /\ (pc \in {"dropna", "stopped", "chart", "predict", "done"}
        /\ PredictSubset \subseteq Columns(data_with_ind)) =>
          \A h \in Horizons :
             LET r == predict_signal(data_with_ind, h)
             IN r.pred_prices = <<>> <=> r.signal = "Insufficient Data"

\* C10 witness: a cycle reached the signal section and printed five prices
C10_FivePricesShown ==
    /\ pc = "done"
    /\ signal \in Signals
    /\ Len(pred_prices) = 5

=============================================================================
